---- MODULE Spec2Model ----
(***************************************************************************)
(* pyappsflyer: the three report families of api.py (PerformanceReport,    *)
(* RawDataReport, TargetingValidationRulesReport) driven on one instance.  *)
(* The instance's class is chosen at construction; its report_names starts *)
(* as the class attribute and is replaced by get_reports' exclusion        *)
(* filtering.  A call is one atomic step from "idle" to "returned", where  *)
(* the call's record (arguments, requests sent, result, exception) can be  *)
(* inspected; Return hands control back to the caller.                     *)
(***************************************************************************)
EXTENDS Integers, Sequences, FiniteSets, TLC

VARIABLES
    family,        \* the class of the instance (api.py 7, 65, 176)
    report_names,  \* self.report_names (class attribute until get_reports replaces it)
    pc,            \* "idle": between calls; "returned": a call has just ended
    call,          \* the call that has just ended: arguments, requests, outcome
    ncalls         \* calls made on the instance so far

vars == <<family, report_names, pc, call, ncalls>>

\* Number of calls made on one instance.
MaxCalls == 2

----------------------------------------------------------------------------
\* Values.
None == "None"
NoError == "NoError"
ValidationError == "ValidationError"
TransportError == "TransportError"
DecodingError == "DecodingError"
Absent == "<absent>"
NoResult == "<no result>"

Range(s) == {s[i] : i \in 1..Len(s)}

Performance == "PerformanceReport"
RawData == "RawDataReport"
Targeting == "TargetingValidationRulesReport"
Families == {Performance, RawData, Targeting}

\* settings.DEFAULT_TIMEZONE, the default of every _get_report's timezone.
DEFAULT_TIMEZONE == "Europe/Moscow"

----------------------------------------------------------------------------
\* Class attributes.
PerformanceReport_report_names ==
    <<"partners_report", "partners_by_date_report",
      "daily_report", "geo_report", "geo_by_date_report">>

additional_fields_uninstall_query ==
    <<"gp_referrer", "gp_click_time",
      "gp_install_begin", "amazon_aid", "keyword_match_type">>

RawDataReport_additional_fields ==
    <<"install_app_store", "contributor1_match_type",
      "contributor2_match_type", "contributor3_match_type",
      "match_type", "device_category">> \o additional_fields_uninstall_query

special_report_names == <<"uninstall_events_report">>

RawDataReport_report_names ==
    <<"installs_report", "in_app_events_report",
      "organic_installs_report", "organic_in_app_events_report">>
    \o special_report_names

report_with_retargeting == <<"installs_report", "in_app_events_report">>

TargetingReport_additional_fields ==
    <<"rejected_reason", "rejected_reason_value",
      "contributor1_match_type", "contributor2_match_type",
      "contributor3_match_type", "match_type,device_category",
      "gp_referrer", "gp_click_time", "gp_install_begin",
      "amazon_aid", "keyword_match_type">>

TargetingReport_report_names ==
    <<"invalid_installs_report", "invalid_in_app_events_report">>

\* The class attribute report_names of a family.
ClassReportNames(fam) ==
    CASE fam = Performance -> PerformanceReport_report_names
      [] fam = RawData -> RawDataReport_report_names
      [] fam = Targeting -> TargetingReport_report_names

\* ",".join(fields)
RECURSIVE Join(_)
Join(fields) ==
    IF Len(fields) = 0 THEN ""
    ELSE IF Len(fields) = 1 THEN fields[1]
    ELSE fields[1] \o "," \o Join(Tail(fields))

\* f"{report_name}_retargeting"
RetargetingKey(report_name) == report_name \o "_retargeting"

----------------------------------------------------------------------------
\* The shared base capability (BaseAppsFlyer).

\* Raises ValidationError (FALSE) unless the name is in the allowed list and
\* the dates are both given or both omitted.
validate_dates_and_report_names(api_report_name, names, from_date, to_date) ==
    /\ api_report_name \in Range(names)
    /\ (from_date = None) <=> (to_date = None)

\* The default lookback window: (today - N days, today).
get_default_dates == <<"today-N", "today">>

\* The reports list without the excluded names, order kept.
do_reports_exclusion(reports, exclude_reports) ==
    SelectSeq(reports, LAMBDA r : r \notin exclude_reports)

\* The outcome of one _get_report: the exception raised (NoError when it
\* returns) and the requests sent (at most one).
Raise(error) == [raised |-> error, requests |-> <<>>]

\* _get_csv: sends the request for self.api_report_name; net is what the
\* transport and the CSV decoding make of it.
get_csv(api_report_name, request_args, net) ==
    [raised |-> net,
     requests |-> <<[report |-> api_report_name,
                     from |-> request_args.from,
                     to |-> request_args.to,
                     timezone |-> request_args.timezone,
                     additional_fields |-> request_args.additional_fields,
                     reattr |-> request_args.reattr]>>]

----------------------------------------------------------------------------
\* PerformanceReport._get_report validating against the class attribute
\* PerformanceReport.report_names instead of self.report_names.
Performance_get_report_class_names(names, from_date, to_date, api_report_name, net) ==
    IF ~validate_dates_and_report_names(api_report_name, PerformanceReport_report_names,
                                        from_date, to_date)
    THEN Raise(ValidationError)
    ELSE LET dates == IF from_date = None \/ to_date = None
                      THEN get_default_dates
                      ELSE <<from_date, to_date>>
         IN get_csv(api_report_name,
                    [from |-> dates[1], to |-> dates[2],
                     timezone |-> DEFAULT_TIMEZONE,
                     additional_fields |-> Absent,
                     reattr |-> Absent],
                    net)

\* PerformanceReport._get_report
Performance_get_report(names, from_date, to_date, api_report_name, net) ==
    IF ~validate_dates_and_report_names(api_report_name, names, from_date, to_date)
    THEN Raise(ValidationError)
    ELSE LET dates == IF from_date = None \/ to_date = None
                      THEN get_default_dates
                      ELSE <<from_date, to_date>>
         IN get_csv(api_report_name,
                    [from |-> dates[1], to |-> dates[2],
                     timezone |-> DEFAULT_TIMEZONE,
                     additional_fields |-> Absent,
                     reattr |-> Absent],
                    net)

\* RawDataReport._get_report sending its request without validating first.
RawData_get_report_unvalidated(names, from_date, to_date, api_report_name, retargeting, different_additional_fields, net) ==
    LET dates == IF from_date = None \/ to_date = None
                 THEN get_default_dates
                 ELSE <<from_date, to_date>>
    IN get_csv(api_report_name,
               [from |-> dates[1], to |-> dates[2],
                timezone |-> DEFAULT_TIMEZONE,
                additional_fields |->
                    IF different_additional_fields
                    THEN Join(additional_fields_uninstall_query)
                    ELSE Join(RawDataReport_additional_fields),
                reattr |-> IF retargeting THEN "true" ELSE Absent],
               net)

\* RawDataReport._get_report
RawData_get_report(names, from_date, to_date, api_report_name, retargeting, different_additional_fields, net) ==
    IF ~validate_dates_and_report_names(api_report_name, names, from_date, to_date)
    THEN Raise(ValidationError)
    ELSE LET dates == IF from_date = None \/ to_date = None
                      THEN get_default_dates
                      ELSE <<from_date, to_date>>
         IN get_csv(api_report_name,
                    [from |-> dates[1], to |-> dates[2],
                     timezone |-> DEFAULT_TIMEZONE,
                     additional_fields |->
                         IF different_additional_fields
                         THEN Join(additional_fields_uninstall_query)
                         ELSE Join(RawDataReport_additional_fields),
                     reattr |-> IF retargeting THEN "true" ELSE Absent],
                    net)

\* TargetingValidationRulesReport._get_report validating the name without
\* handing the dates to the validation.
Targeting_get_report_dates_unchecked(names, from_date, to_date, api_report_name, net) ==
    IF ~validate_dates_and_report_names(api_report_name, names, None, None)
    THEN Raise(ValidationError)
    ELSE LET dates == IF from_date = None \/ to_date = None
                      THEN get_default_dates
                      ELSE <<from_date, to_date>>
         IN get_csv(api_report_name,
                    [from |-> dates[1], to |-> dates[2],
                     timezone |-> DEFAULT_TIMEZONE,
                     additional_fields |-> Join(TargetingReport_additional_fields),
                     reattr |-> Absent],
                    net)

\* TargetingValidationRulesReport._get_report
Targeting_get_report(names, from_date, to_date, api_report_name, net) ==
    IF ~validate_dates_and_report_names(api_report_name, names, from_date, to_date)
    THEN Raise(ValidationError)
    ELSE LET dates == IF from_date = None \/ to_date = None
                      THEN get_default_dates
                      ELSE <<from_date, to_date>>
         IN get_csv(api_report_name,
                    [from |-> dates[1], to |-> dates[2],
                     timezone |-> DEFAULT_TIMEZONE,
                     additional_fields |-> Join(TargetingReport_additional_fields),
                     reattr |-> Absent],
                    net)

\* The single-report method of the instance's family; retargeting and
\* different_additional_fields exist for RawDataReport only.
get_report(fam, names, from_date, to_date, api_report_name, retargeting, different_additional_fields, net) ==
    CASE fam = Performance ->
           Performance_get_report(names, from_date, to_date, api_report_name, net)
      [] fam = RawData ->
           RawData_get_report(names, from_date, to_date, api_report_name,
                              retargeting, different_additional_fields, net)
      [] fam = Targeting ->
           Targeting_get_report(names, from_date, to_date, api_report_name, net)

----------------------------------------------------------------------------
\* get_reports: what one run of the method has done so far.
EmptyAcc == [requests |-> <<>>, result |-> <<>>, raised |-> NoError]

\* all_reports.append(...) inside a try/except that swallows the exception
\* and goes on with the next report.
Collect_swallows(acc, key, r) ==
    IF r.raised # NoError
    THEN [acc EXCEPT !.requests = @ \o r.requests]
    ELSE [acc EXCEPT !.requests = @ \o r.requests,
                     !.result = Append(@, [key |-> key, request |-> r.requests[1]])]

\* all_reports.append({key: <the single-report call r>}): an exception raised
\* by r leaves get_reports at once (acc.raised), and nothing after it runs.
Collect(acc, key, r) ==
    IF acc.raised # NoError THEN acc
    ELSE IF r.raised # NoError
    THEN [acc EXCEPT !.requests = @ \o r.requests, !.raised = r.raised]
    ELSE [acc EXCEPT !.requests = @ \o r.requests,
                     !.result = Append(@, [key |-> key, request |-> r.requests[1]])]

\* The outcome the transport gives the next request of this run.
NextNet(acc, net) == net[Len(acc.requests) + 1]

\* The body of the loop of PerformanceReport.get_reports.
Performance_loop_body(self_names, acc, report_name, from_date, to_date, net) ==
    Collect(acc, report_name,
            get_report(Performance, self_names, from_date, to_date, report_name,
                       FALSE, FALSE, NextNet(acc, net)))

\* The loop body of RawDataReport.get_reports with the second fetch of a
\* retargeting report made without retargeting=True.
RawData_loop_body_no_flag(self_names, acc, report_name, from_date, to_date, net) ==
    IF report_name \in Range(report_with_retargeting)
    THEN LET first == Collect(acc, report_name,
                         get_report(RawData, self_names, from_date, to_date,
                                    report_name, FALSE, FALSE, NextNet(acc, net)))
         IN Collect(first, RetargetingKey(report_name),
                    RawData_get_report(self_names, from_date, to_date,
                                       report_name, FALSE, FALSE, NextNet(first, net)))
    ELSE IF report_name \in Range(special_report_names)
    THEN Collect(acc, report_name,
                 get_report(RawData, self_names, from_date, to_date,
                            report_name, FALSE, TRUE, NextNet(acc, net)))
    ELSE Collect(acc, report_name,
                 get_report(RawData, self_names, from_date, to_date,
                            report_name, FALSE, FALSE, NextNet(acc, net)))

\* The loop body of RawDataReport.get_reports with the special reports
\* fetched like the others, without different_additional_fields=True.
RawData_loop_body_no_special(self_names, acc, report_name, from_date, to_date, net) ==
    IF report_name \in Range(report_with_retargeting)
    THEN LET first == Collect(acc, report_name,
                         get_report(RawData, self_names, from_date, to_date,
                                    report_name, FALSE, FALSE, NextNet(acc, net)))
         IN Collect(first, RetargetingKey(report_name),
                    RawData_get_report(self_names, from_date, to_date,
                                       report_name, TRUE, FALSE, NextNet(first, net)))
    ELSE Collect(acc, report_name,
                 get_report(RawData, self_names, from_date, to_date,
                            report_name, FALSE, FALSE, NextNet(acc, net)))

\* The body of the loop of RawDataReport.get_reports.
RawData_loop_body(self_names, acc, report_name, from_date, to_date, net) ==
    IF report_name \in Range(report_with_retargeting)
    THEN LET first == Collect(acc, report_name,
                         get_report(RawData, self_names, from_date, to_date,
                                    report_name, FALSE, FALSE, NextNet(acc, net)))
         IN Collect(first, RetargetingKey(report_name),
                    RawData_get_report(self_names, from_date, to_date,
                                       report_name, TRUE, FALSE, NextNet(first, net)))
    ELSE IF report_name \in Range(special_report_names)
    THEN Collect(acc, report_name,
                 get_report(RawData, self_names, from_date, to_date,
                            report_name, FALSE, TRUE, NextNet(acc, net)))
    ELSE Collect(acc, report_name,
                 get_report(RawData, self_names, from_date, to_date,
                            report_name, FALSE, FALSE, NextNet(acc, net)))

\* The body of the loop of TargetingValidationRulesReport.get_reports.
Targeting_loop_body(self_names, acc, report_name, from_date, to_date, net) ==
    Collect(acc, report_name,
            get_report(Targeting, self_names, from_date, to_date, report_name,
                       FALSE, FALSE, NextNet(acc, net)))

loop_body(fam, self_names, acc, report_name, from_date, to_date, net) ==
    CASE fam = Performance ->
           Performance_loop_body(self_names, acc, report_name, from_date, to_date, net)
      [] fam = RawData ->
           RawData_loop_body(self_names, acc, report_name, from_date, to_date, net)
      [] fam = Targeting ->
           Targeting_loop_body(self_names, acc, report_name, from_date, to_date, net)

\* The loop leaving before the last report name (an off-by-one).
RECURSIVE for_report_name_skips_last(_, _, _, _, _, _, _)
for_report_name_skips_last(fam, self_names, todo, acc, from_date, to_date, net) ==
    IF Len(todo) <= 1 \/ acc.raised # NoError THEN acc
    ELSE for_report_name_skips_last(fam, self_names, Tail(todo),
                         loop_body(fam, self_names, acc, Head(todo), from_date, to_date, net),
                         from_date, to_date, net)

\* for report_name in self.report_names: ... ; todo is what is left to iterate.
RECURSIVE for_report_name(_, _, _, _, _, _, _)
for_report_name(fam, self_names, todo, acc, from_date, to_date, net) ==
    IF todo = <<>> \/ acc.raised # NoError THEN acc
    ELSE for_report_name(fam, self_names, Tail(todo),
                         loop_body(fam, self_names, acc, Head(todo), from_date, to_date, net),
                         from_date, to_date, net)

\* self.report_names after the exclusion filtering of PerformanceReport.get_reports.
Performance_exclusion(self_names, exclude_reports) ==
    IF exclude_reports # {}
    THEN do_reports_exclusion(self_names, exclude_reports)
    ELSE self_names

\* self.report_names after the exclusion filtering of RawDataReport.get_reports.
RawData_exclusion(self_names, exclude_reports, exclude_retargeting_reports) ==
    LET filtered == IF exclude_reports # {}
                    THEN do_reports_exclusion(self_names, exclude_reports)
                    ELSE self_names
    IN IF exclude_retargeting_reports # {}
       THEN do_reports_exclusion(report_with_retargeting, exclude_retargeting_reports)
       ELSE filtered

\* self.report_names after the exclusion filtering of
\* TargetingValidationRulesReport.get_reports.
Targeting_exclusion(self_names, exclude_reports) ==
    IF exclude_reports # {}
    THEN do_reports_exclusion(self_names, exclude_reports)
    ELSE self_names

exclusion(fam, self_names, exclude_reports, exclude_retargeting_reports) ==
    CASE fam = Performance -> Performance_exclusion(self_names, exclude_reports)
      [] fam = RawData ->
           RawData_exclusion(self_names, exclude_reports, exclude_retargeting_reports)
      [] fam = Targeting -> Targeting_exclusion(self_names, exclude_reports)

\* get_reports: the new self.report_names and what the loop over it did.
get_reports(fam, self_names, exclude_reports, exclude_retargeting_reports, from_date, to_date, net) ==
    LET names == exclusion(fam, self_names, exclude_reports, exclude_retargeting_reports)
    IN [report_names |-> names,
        run |-> for_report_name(fam, names, names, EmptyAcc, from_date, to_date, net)]

----------------------------------------------------------------------------
\* Inputs.
FromDates == {None, "2020-01-01"}
ToDates == {None, "2020-01-31"}

\* Names a caller may ask for: every family's, and one that no family has.
AllNames ==
    Range(PerformanceReport_report_names) \cup Range(RawDataReport_report_names)
    \cup Range(TargetingReport_report_names) \cup {"bogus_report"}

\* The most requests one get_reports can send.
MostRequests == Len(RawDataReport_report_names) + Len(report_with_retargeting)

\* The transport's answers to the requests of one call: all succeed, or the
\* failAt-th fails.
Nets ==
    {[k \in 1..(MostRequests + 1) |-> IF k = failAt THEN kind ELSE NoError] :
        failAt \in 0..MostRequests, kind \in {TransportError, DecodingError}}

NoCall ==
    [op |-> "none", fresh |-> FALSE, before |-> <<>>,
     exclude_reports |-> {}, exclude_retargeting_reports |-> {},
     from_date |-> None, to_date |-> None, api_report_name |-> None,
     retargeting |-> FALSE, different_additional_fields |-> FALSE,
     net |-> <<>>, requests |-> <<>>, result |-> NoResult, raised |-> NoError]

----------------------------------------------------------------------------
Init ==
    /\ family \in Families
    /\ report_names = ClassReportNames(family)
    /\ pc = "idle"
    /\ call = NoCall
    /\ ncalls = 0

\* instance.get_reports(exclude_reports, [exclude_retargeting_reports,]
\*                      from_date=..., to_date=...)
GetReports ==
    /\ pc = "idle"
    /\ ncalls < MaxCalls
    /\ \E exclude_reports \in SUBSET Range(ClassReportNames(family)),
          exclude_retargeting_reports \in
              (IF family = RawData THEN SUBSET Range(report_with_retargeting) ELSE {{}}),
          from_date \in FromDates, to_date \in ToDates, net \in Nets :
          LET out == get_reports(family, report_names, exclude_reports,
                                 exclude_retargeting_reports, from_date, to_date, net)
          IN /\ report_names' = out.report_names
             /\ call' = [op |-> "get_reports", fresh |-> (ncalls = 0),
                         before |-> report_names,
                         exclude_reports |-> exclude_reports,
                         exclude_retargeting_reports |-> exclude_retargeting_reports,
                         from_date |-> from_date, to_date |-> to_date,
                         api_report_name |-> None,
                         retargeting |-> FALSE, different_additional_fields |-> FALSE,
                         net |-> net, requests |-> out.run.requests,
                         result |-> IF out.run.raised = NoError
                                    THEN out.run.result ELSE NoResult,
                         raised |-> out.run.raised]
    /\ pc' = "returned"
    /\ ncalls' = ncalls + 1
    /\ UNCHANGED family

\* instance.get_report(api_report_name=..., from_date=..., to_date=...
\*                     [, retargeting=..., different_additional_fields=...])
GetReport ==
    /\ pc = "idle"
    /\ ncalls < MaxCalls
    /\ \E api_report_name \in AllNames, from_date \in FromDates, to_date \in ToDates,
          retargeting \in (IF family = RawData THEN BOOLEAN ELSE {FALSE}),
          different_additional_fields \in (IF family = RawData THEN BOOLEAN ELSE {FALSE}),
          net \in {NoError, TransportError, DecodingError} :
          LET r == get_report(family, report_names, from_date, to_date, api_report_name,
                              retargeting, different_additional_fields, net)
          IN call' = [op |-> "get_report", fresh |-> (ncalls = 0),
                      before |-> report_names,
                      exclude_reports |-> {}, exclude_retargeting_reports |-> {},
                      from_date |-> from_date, to_date |-> to_date,
                      api_report_name |-> api_report_name,
                      retargeting |-> retargeting,
                      different_additional_fields |-> different_additional_fields,
                      net |-> <<net>>, requests |-> r.requests,
                      result |-> IF r.raised = NoError
                                 THEN <<[key |-> api_report_name, request |-> r.requests[1]]>>
                                 ELSE NoResult,
                      raised |-> r.raised]
    /\ pc' = "returned"
    /\ ncalls' = ncalls + 1
    /\ UNCHANGED <<family, report_names>>

\* The call is over: the caller has its result or its exception.
Return ==
    /\ pc = "returned"
    /\ pc' = "idle"
    /\ call' = NoCall
    /\ UNCHANGED <<family, report_names, ncalls>>

Next == GetReports \/ GetReport \/ Return

Spec == Init /\ [][Next]_vars

----------------------------------------------------------------------------
\* Properties.

Returned(op) == pc = "returned" /\ call.op = op

Keys(result) == [i \in 1..Len(result) |-> result[i].key]

RequestNames(requests) == [i \in 1..Len(requests) |-> requests[i].report]

ExactlyOneDate(from_date, to_date) == (from_date = None) # (to_date = None)

\* C1: in every family, the single-report method called with a name that is
\* not among the family's report_names raises ValidationError, and no request
\* has been sent by that call.
C1_UnknownNameRaisesBeforeRequest ==
    (Returned("get_report")
        /\ call.api_report_name \notin Range(ClassReportNames(family)))
    => (call.raised = ValidationError /\ call.requests = <<>>)

C1_Witness ==
    /\ Returned("get_report")
    /\ family = RawData
    /\ call.api_report_name = "geo_report"
    /\ call.from_date # None /\ call.to_date # None
    /\ call.raised = ValidationError
    /\ call.requests = <<>>

\* C7: a single-report call given exactly one of from_date and to_date raises
\* ValidationError and sends nothing; every request sent, by the single-report
\* method or by get_reports handing its dates on, carries either both of the
\* caller's dates (both given) or both default dates (none given).
C7_DatesBothOrNeither ==
    (pc = "returned") =>
        /\ (call.op = "get_report" /\ ExactlyOneDate(call.from_date, call.to_date))
              => (call.raised = ValidationError /\ call.requests = <<>>)
        /\ \A i \in 1..Len(call.requests) :
              \/ /\ call.from_date # None /\ call.to_date # None
                 /\ call.requests[i].from = call.from_date
                 /\ call.requests[i].to = call.to_date
              \/ /\ call.from_date = None /\ call.to_date = None
                 /\ <<call.requests[i].from, call.requests[i].to>> = get_default_dates

C7_Witness ==
    /\ Returned("get_report")
    /\ family = Targeting
    /\ call.api_report_name \in Range(call.before)
    /\ call.from_date # None /\ call.to_date = None
    /\ call.raised = ValidationError
    /\ call.requests = <<>>

\* C10: the single-report method validates against the instance's current
\* report_names: asked for a name of the family's declared set that
\* get_reports' exclusion has removed from the instance, it raises
\* ValidationError and sends nothing, while on a fresh instance the same name
\* (with a valid date pair) has its request sent.
C10_ValidatesAgainstCurrentNames ==
    Returned("get_report") =>
        /\ (call.api_report_name \in Range(ClassReportNames(family))
               /\ call.api_report_name \notin Range(call.before))
             => (call.raised = ValidationError /\ call.requests = <<>>)
        /\ (call.fresh
               /\ call.api_report_name \in Range(ClassReportNames(family))
               /\ ~ExactlyOneDate(call.from_date, call.to_date))
             => (Len(call.requests) = 1
                   /\ call.requests[1].report = call.api_report_name
                   /\ call.raised # ValidationError)

C10_Witness ==
    /\ Returned("get_report")
    /\ ~call.fresh
    /\ call.api_report_name \in Range(ClassReportNames(family))
    /\ call.api_report_name \notin Range(call.before)
    /\ ~ExactlyOneDate(call.from_date, call.to_date)
    /\ call.raised = ValidationError
    /\ call.requests = <<>>

----------------------------------------------------------------------------
\* Properties of get_reports.

\* A get_reports call that returned its list.
Completed == Returned("get_reports") /\ call.raised = NoError

\* The keys RawDataReport.get_reports builds from a name list: each name, and
\* a retargeting-capable name followed by its _retargeting key.
RECURSIVE ExpectedRawKeys(_)
ExpectedRawKeys(names) ==
    IF names = <<>> THEN <<>>
    ELSE (IF Head(names) \in Range(report_with_retargeting)
          THEN <<Head(names), RetargetingKey(Head(names))>>
          ELSE <<Head(names)>>) \o ExpectedRawKeys(Tail(names))

\* The report names of the requests a family sends for a name list, in order.
RECURSIVE ExpectedRequestNames(_, _)
ExpectedRequestNames(fam, names) ==
    IF names = <<>> THEN <<>>
    ELSE (IF fam = RawData /\ Head(names) \in Range(report_with_retargeting)
          THEN <<Head(names), Head(names)>>
          ELSE <<Head(names)>>) \o ExpectedRequestNames(fam, Tail(names))

\* C2 as stated: get_reports without exclusions on a fresh instance returns
\* entries whose keys are exactly the family's report_names, in order.
C2_KeysAreReportNames ==
    (Completed /\ call.fresh
        /\ call.exclude_reports = {} /\ call.exclude_retargeting_reports = {})
    => Keys(call.result) = ClassReportNames(family)

\* C2 amended: get_reports without exclusions on a fresh instance returns
\* entries whose keys are the family's report_names in order, where for
\* RawDataReport each name of report_with_retargeting is followed at once by
\* the extra key "<name>_retargeting".
C2_KeysAreReportNamesWithRetargeting ==
    (Completed /\ call.fresh
        /\ call.exclude_reports = {} /\ call.exclude_retargeting_reports = {})
    => Keys(call.result) =
          (IF family = RawData
           THEN ExpectedRawKeys(ClassReportNames(family))
           ELSE ClassReportNames(family))

C2_Witness ==
    /\ Completed /\ call.fresh
    /\ call.exclude_reports = {} /\ call.exclude_retargeting_reports = {}
    /\ family = RawData
    /\ Len(call.result) = 7
    /\ call.result[2].key = "installs_report_retargeting"

\* C3: get_reports on a fresh instance with exclusion lists removes exactly
\* the excluded names: no name of exclude_reports is fetched or appears as a
\* key, and every name the caller did not list in either exclusion list
\* still appears as a key.
C3_ExactlyExcludedRemoved ==
    (Completed /\ call.fresh) =>
        /\ \A i \in 1..Len(call.requests) :
              call.requests[i].report \notin call.exclude_reports
        /\ \A i \in 1..Len(call.result) :
              call.result[i].key \notin call.exclude_reports
        /\ \A n \in Range(ClassReportNames(family)) :
              n \notin (call.exclude_reports \cup call.exclude_retargeting_reports)
                 => n \in Range(Keys(call.result))

\* C4: in RawDataReport.get_reports, exclude_retargeting_reports removes no
\* report name outside the retargeting subset from the reports fetched and
\* leaves the effect of exclude_reports of the same call in place.
C4_IndependentExclusionLists ==
    (Completed /\ family = RawData /\ call.exclude_retargeting_reports # {}) =>
        /\ \A n \in Range(call.before) :
              (n \notin Range(report_with_retargeting) /\ n \notin call.exclude_reports)
                 => n \in Range(RequestNames(call.requests))
        /\ \A n \in call.exclude_reports :
              n \notin Range(RequestNames(call.requests))

C8_FailureAbortsLoop ==
    Returned("get_reports") =>
        LET n == Len(call.requests)
            expected == ExpectedRequestNames(family, report_names)
        IN /\ n <= Len(expected)
           /\ RequestNames(call.requests) = SubSeq(expected, 1, n)
           /\ \A k \in 1..(n - 1) : call.net[k] = NoError
           /\ call.raised \in {TransportError, DecodingError} =>
                 /\ n >= 1
                 /\ call.net[n] = call.raised
                 /\ call.result = NoResult
           /\ call.raised = ValidationError =>
                 /\ n = 0
                 /\ ExactlyOneDate(call.from_date, call.to_date)
                 /\ call.result = NoResult
           /\ call.raised = NoError =>
                 /\ n = Len(expected)
                 /\ n >= 1 => call.net[n] = NoError
                 /\ call.result # NoResult

C8_Witness ==
    /\ Returned("get_reports")
    /\ call.raised = DecodingError
    /\ Len(call.requests) = 2
    /\ Len(report_names) = 5
    /\ call.result = NoResult

\* C9: a name that earlier get_reports calls removed from the instance's
\* report_names is never fetched by a later get_reports call: every request
\* of a call is for a name the list held when the call began.
C9_ExcludedNeverFetchedLater ==
    Returned("get_reports") =>
        \A i \in 1..Len(call.requests) :
           call.requests[i].report \in Range(call.before)

====
